---- MODULE Spec2Model ----
(***************************************************************************)
(* A model of mm.c: an implicit-list allocator with boundary tags          *)
(* (header + footer per block), immediate coalescing and next-fit search.  *)
(*                                                                         *)
(* The heap is modelled as the C code sees it: an array of 32-bit words    *)
(* addressed by byte address, read and written through READ/WRITE.  Every  *)
(* C function is an operator on a heap record                              *)
(*   h = [mem, cap, brk, heapL, trav, fault, log]                          *)
(* that returns the heap after the call together with the returned value.  *)
(* The memory provider (memlib's mem_sbrk) and the client that owns the    *)
(* payloads are not part of mm.c; they are modelled from the specification.*)
(*                                                                         *)
(* Words and sizes are 32-bit unsigned values, kept as the signed integer  *)
(* with the same bits: see ULt, ULe, UDiv and MulDWORD.                    *)
(*                                                                         *)
(* Spec is the client making any call; SpecFrag is the client making       *)
(* longer runs of allocate and free alone.                                 *)
(***************************************************************************)
EXTENDS Integers, Sequences, FiniteSets, TLC

VARIABLES
    mem,    \* the words granted by the provider, a sequence: see Idx
    cap,    \* the provider's capacity: the bytes it can grant in all
    brk,    \* bytes granted by the provider so far
    heapL,  \* static char *heapL
    trav,   \* static char *trav (the next-fit cursor)
    fault,  \* TRUE once the allocator touched memory outside the granted heap
    live,   \* the client's live allocations: records [p, n, tag, len]
    hist    \* the calls made so far, one record per call, oldest first

vars == <<mem, cap, brk, heapL, trav, fault, live, hist>>

-----------------------------------------------------------------------------
(* Bounds of the model *)

\* the number of allocator calls in one run
MaxOps == 4

\* the number of those calls that may be degenerate: a zero size or a NULL
\* pointer
MaxNull == 1

\* the provider never grants more than this many bytes in total (the
\* skeleton, a chunk and a block of 5008 bytes)
MaxHeap == 9120

\* the non-zero request sizes (bytes) the client uses: one that is not a
\* multiple of the word size, and one that leaves 32 bytes of a chunk
Sizes == {13, 4056}

\* the number of calls in a run of allocate and free alone, and the sizes
\* of its requests: 56 bytes fit the space of two blocks of 32 but not of
\* one, and 5000 bytes are more than a chunk
MaxFragOps == 6
FragSizes == {32, 56, 5000}

\* the sizes of the free block and of the request in the runs of put alone:
\* 16, 24, ... up to 16 + 8 * MaxPut bytes
MaxPut == 13
PutSizes == {2 * 8 + 8 * i : i \in 0..MaxPut}

\* request sizes near the maximum of size_t: 2^32 - 1, 2^32 - 9, 2^32 - 16
HugeSizes == {-1, -9, -16}

\* the provider's capacity in a run: it refuses every request, it grants the
\* skeleton only, it grants the skeleton and one chunk, it grants MaxHeap
Caps == {0, 16, 4112, MaxHeap}

-----------------------------------------------------------------------------
(* Constants and macros of mm.c *)

HFSIZE == 4
DWORD == 8
CHUNKSIZE == 4096

NULL == 0
\* (void *)-1, what mem_sbrk returns when it refuses
SBRK_FAILED == -1
\* the address of the first byte the provider grants (8-aligned)
HeapBase == 1024

\* unsigned int, size_t and pointers are 32 bits wide (the lab builds with
\* -m32).  A 32-bit value is held as the integer in -2^31 .. 2^31 - 1 that is
\* congruent to it modulo 2^32 (its two's complement reading), so that + and
\* - wrap as the machine's do as long as no intermediate result leaves that
\* range; the order of unsigned values is ULt / ULe.
ULt(a, b) == IF (a >= 0) = (b >= 0) THEN a < b ELSE a >= 0
ULe(a, b) == a = b \/ ULt(a, b)
\* unsigned a / d, for d a power of two
UDiv(a, d) == IF a >= 0 THEN a \div d ELSE (a \div d) + 4 * ((2^30) \div d)
\* DWORD * q modulo 2^32, for 0 <= q < 2^29
MulDWORD(q) == IF q >= 2^28 THEN DWORD * (q - 2^29) ELSE DWORD * q
\* HFSIZE * q modulo 2^32, for 0 <= q < 2^30
MulHFSIZE(q) == IF q >= 2^29 THEN HFSIZE * (q - 2^30) ELSE HFSIZE * q

Min(a, b) == IF a < b THEN a ELSE b

HF(size, alloc) == IF size % 2 = 1 THEN size ELSE size + alloc

\* an aligned word that lies inside the granted heap
Mapped(h, a) ==
    /\ a >= HeapBase
    /\ a + HFSIZE <= HeapBase + h.brk
    /\ a % HFSIZE = 0

\* the place in mem of the word at address a
Idx(a) == ((a - HeapBase) \div HFSIZE) + 1

READ(h, a) == h.mem[Idx(a)]

WRITE(h, a, val) ==
    IF Mapped(h, a)
    THEN [h EXCEPT !.mem[Idx(a)] = val]
    ELSE [h EXCEPT !.fault = TRUE]

GET_SIZE(h, a) == READ(h, a) - (READ(h, a) % 8)
GET_ALLOC(h, a) == READ(h, a) % 2

HEAD(ptr) == ptr - HFSIZE
FOOT(h, ptr) == ptr + GET_SIZE(h, HEAD(ptr)) - DWORD

NEXT(h, ptr) == ptr + GET_SIZE(h, ptr - HFSIZE)
PREV(h, ptr) == ptr - GET_SIZE(h, ptr - DWORD)

-----------------------------------------------------------------------------
(* The memory provider: it grants a request iff the heap stays within its  *)
(* capacity h.cap, the new bytes follow the old ones and hold Fresh.       *)
(* Every request is appended to h.log.                                     *)

\* what the words of freshly granted memory hold (0xFFFFFFFF)
Fresh == -1

\* a request of 2^31 bytes or more (a negative int) is refused
mem_sbrk(h, incr) ==
    IF incr >= 0 /\ h.brk + incr <= h.cap
    THEN [h |-> [h EXCEPT
                   !.brk = h.brk + incr,
                   !.mem = h.mem \o [i \in 1..(incr \div HFSIZE) |-> Fresh],
                   !.log = Append(@, [incr |-> incr, ok |-> TRUE])],
          ptr |-> HeapBase + h.brk]
    ELSE [h |-> [h EXCEPT !.log = Append(@, [incr |-> incr, ok |-> FALSE])],
          ptr |-> SBRK_FAILED]

-----------------------------------------------------------------------------
(* The C functions.  A function's statements are composed as nested        *)
(* operator applications: the heap after one statement is the argument of  *)
(* the operator that models the statements after it.                       *)

\* WRITE(HEAD(ptr), val), WRITE(FOOT(ptr), val), and the same at PREV(ptr) and
\* NEXT(ptr); the addresses are computed in the heap the write is made in
WRITE_HEAD(h, ptr, val) == WRITE(h, HEAD(ptr), val)
WRITE_FOOT(h, ptr, val) == WRITE(h, FOOT(h, ptr), val)
WRITE_HEAD_PREV(h, ptr, val) == WRITE(h, HEAD(PREV(h, ptr)), val)
WRITE_HEAD_NEXT(h, ptr, val) == WRITE(h, HEAD(NEXT(h, ptr)), val)
WRITE_FOOT_NEXT(h, ptr, val) == WRITE(h, FOOT(h, NEXT(h, ptr)), val)

-----------------------------------------------------------------------------
(* coalesce *)

\* the return of line 111 without line 109
coalesce_ret_keeps_cursor(h, ptr) == [h |-> h, ptr |-> ptr]

\* line 109, and the return of line 111
coalesce_ret(h, ptr) ==
    [h |-> IF ULt(ptr, h.trav) /\ ULt(h.trav, NEXT(h, ptr))
           THEN [h EXCEPT !.trav = ptr]
           ELSE h,
     ptr |-> ptr]

\* "ptr = PREV(ptr)" of lines 91 and 106, then line 109
coalesce_ret_prev(h, ptr) == coalesce_ret(h, PREV(h, ptr))

\* lines 88-91, size being the sum of line 88
coalesce_prev(h, ptr, size) ==
    coalesce_ret_prev(WRITE_HEAD_PREV(WRITE_FOOT(h, ptr, HF(size, 0)), ptr, HF(size, 0)),
                      ptr)

\* lines 96-98 without the two writes: the block is not merged with the next
coalesce_next_unmerged(h, ptr, size) == coalesce_ret(h, ptr)

\* lines 96-98
coalesce_next(h, ptr, size) ==
    coalesce_ret(WRITE_FOOT(WRITE_HEAD(h, ptr, HF(size, 0)), ptr, HF(size, 0)), ptr)

\* lines 103-106 without the write of the footer
coalesce_both_head_only(h, ptr, size) ==
    coalesce_ret_prev(WRITE_HEAD_PREV(h, ptr, HF(size, 0)), ptr)

\* lines 103-106
coalesce_both(h, ptr, size) ==
    coalesce_ret_prev(WRITE_FOOT_NEXT(WRITE_HEAD_PREV(h, ptr, HF(size, 0)),
                                      ptr, HF(size, 0)),
                      ptr)

coalesce_cases(h, ptr, prev_alloc, next_alloc, size) ==
    IF prev_alloc # 0 /\ next_alloc # 0
    THEN [h |-> h, ptr |-> ptr]
    ELSE IF prev_alloc = 0 /\ next_alloc # 0
    THEN coalesce_prev(h, ptr, size + GET_SIZE(h, HEAD(PREV(h, ptr))))
    ELSE IF prev_alloc # 0 /\ next_alloc = 0
    THEN coalesce_next(h, ptr, size + GET_SIZE(h, HEAD(NEXT(h, ptr))))
    ELSE coalesce_both(h, ptr, size + GET_SIZE(h, HEAD(PREV(h, ptr)))
                                    + GET_SIZE(h, FOOT(h, NEXT(h, ptr))))

coalesce(h, ptr) ==
    coalesce_cases(h, ptr,
                   GET_ALLOC(h, FOOT(h, PREV(h, ptr))),
                   GET_ALLOC(h, HEAD(NEXT(h, ptr))),
                   GET_SIZE(h, HEAD(ptr)))

-----------------------------------------------------------------------------
(* grow_heap *)

\* lines 127-134 without line 132: no new end header
grow_heap_sbrk_no_end(r, size) ==
    IF r.ptr = SBRK_FAILED
    THEN [h |-> r.h, ptr |-> NULL]
    ELSE coalesce(WRITE_FOOT(WRITE_HEAD(r.h, r.ptr, HF(size, 0)), r.ptr, HF(size, 0)),
                  r.ptr)

\* lines 127-134, r being what mem_sbrk returned
grow_heap_sbrk(r, size) ==
    IF r.ptr = SBRK_FAILED
    THEN [h |-> r.h, ptr |-> NULL]
    ELSE coalesce(WRITE_HEAD_NEXT(WRITE_FOOT(WRITE_HEAD(r.h, r.ptr, HF(size, 0)),
                                             r.ptr, HF(size, 0)),
                                  r.ptr, HF(0, 1)),
                  r.ptr)

\* line 124
grow_size(words) ==
    IF words % 2 = 1 THEN MulHFSIZE(words + 1) ELSE MulHFSIZE(words)

grow_heap(h, words) == grow_heap_sbrk(mem_sbrk(h, grow_size(words)), grow_size(words))

-----------------------------------------------------------------------------
(* fit: the two loops of the next-fit search; h.trav is the loop variable *)

RECURSIVE fit_wrap(_, _, _)
fit_wrap(h, adj_size, origtrav) ==
    IF ULt(h.trav, origtrav)
    THEN IF GET_ALLOC(h, HEAD(h.trav)) = 0 /\ ULe(adj_size, GET_SIZE(h, HEAD(h.trav)))
         THEN [h |-> h, ptr |-> h.trav]
         ELSE fit_wrap([h EXCEPT !.trav = NEXT(h, h.trav)], adj_size, origtrav)
    ELSE [h |-> h, ptr |-> NULL]

\* the heap has no word at HEAD(trav) when trav was never set: the read of
\* line 150 is then outside the heap
RECURSIVE fit_fwd(_, _, _)
fit_fwd(h, adj_size, origtrav) ==
    IF ~Mapped(h, HEAD(h.trav))
    THEN [h |-> [h EXCEPT !.fault = TRUE], ptr |-> NULL]
    ELSE IF GET_SIZE(h, HEAD(h.trav)) # 0
    THEN IF GET_ALLOC(h, HEAD(h.trav)) = 0 /\ ULe(adj_size, GET_SIZE(h, HEAD(h.trav)))
         THEN [h |-> h, ptr |-> h.trav]
         ELSE fit_fwd([h EXCEPT !.trav = NEXT(h, h.trav)], adj_size, origtrav)
    ELSE fit_wrap([h EXCEPT !.trav = h.heapL], adj_size, origtrav)

\* fit searching from the start of the list (first fit)
fit_from_start(h, adj_size) == fit_fwd([h EXCEPT !.trav = h.heapL], adj_size, h.heapL)

fit(h, adj_size) == fit_fwd(h, adj_size, h.trav)

-----------------------------------------------------------------------------
(* put *)

\* lines 173-175, nx being NEXT(ptr)
put_rest(h, nx, rest) == WRITE_FOOT(WRITE_HEAD(h, nx, HF(rest, 0)), nx, HF(rest, 0))

\* lines 171-175
put_split(h, ptr, rest) == put_rest(h, NEXT(h, ptr), rest)

\* put splitting only when three double words are left
put_csize_split_three(h, ptr, adj_size, csize) ==
    IF ULe(3 * DWORD, csize - adj_size)
    THEN put_split(WRITE_FOOT(WRITE_HEAD(h, ptr, HF(adj_size, 1)), ptr, HF(adj_size, 1)),
                   ptr, csize - adj_size)
    ELSE WRITE_FOOT(WRITE_HEAD(h, ptr, HF(csize, 1)), ptr, HF(csize, 1))

\* put splitting whenever a double word is left
put_csize_split_dword(h, ptr, adj_size, csize) ==
    IF ULe(DWORD, csize - adj_size)
    THEN put_split(WRITE_FOOT(WRITE_HEAD(h, ptr, HF(adj_size, 1)), ptr, HF(adj_size, 1)),
                   ptr, csize - adj_size)
    ELSE WRITE_FOOT(WRITE_HEAD(h, ptr, HF(csize, 1)), ptr, HF(csize, 1))

\* lines 170-180, csize being the size of the block at ptr
put_csize(h, ptr, adj_size, csize) ==
    IF ULe(2 * DWORD, csize - adj_size)
    THEN put_split(WRITE_FOOT(WRITE_HEAD(h, ptr, HF(adj_size, 1)), ptr, HF(adj_size, 1)),
                   ptr, csize - adj_size)
    ELSE WRITE_FOOT(WRITE_HEAD(h, ptr, HF(csize, 1)), ptr, HF(csize, 1))

put(h, ptr, adj_size) == put_csize(h, ptr, adj_size, GET_SIZE(h, HEAD(ptr)))

-----------------------------------------------------------------------------
(* mm_init *)

\* lines 204-205 without the test of what grow_heap returned
mm_init_grown_ok(g) == [h |-> g.h, ret |-> 0]

\* lines 204-205, g being what grow_heap returned
mm_init_grown(g) == [h |-> g.h, ret |-> IF g.ptr = NULL THEN -1 ELSE 0]

\* lines 194-205, r being what mem_sbrk returned
mm_init_sbrk(r) ==
    IF r.ptr = SBRK_FAILED
    THEN [h |-> [r.h EXCEPT !.heapL = SBRK_FAILED], ret |-> -1]
    ELSE mm_init_grown(grow_heap(
            [WRITE(WRITE(WRITE(WRITE(r.h, r.ptr, 0),
                               r.ptr + (1 * HFSIZE), HF(DWORD, 1)),
                         r.ptr + (2 * HFSIZE), HF(DWORD, 1)),
                   r.ptr + (3 * HFSIZE), HF(0, 1))
               EXCEPT !.heapL = r.ptr + (2 * HFSIZE), !.trav = r.ptr + (2 * HFSIZE)],
            CHUNKSIZE \div HFSIZE))

mm_init(h) == mm_init_sbrk(mem_sbrk(h, 4 * HFSIZE))

\* "if (heapL == 0) mm_init();" of lines 220 and 249
lazy_init(h) == IF h.heapL = 0 THEN mm_init(h).h ELSE h

-----------------------------------------------------------------------------
(* mm_malloc *)

\* lines 223-224 without the room for the header and the footer
AdjSize_no_overhead(size) ==
    IF ULe(size, DWORD)
    THEN DWORD
    ELSE MulDWORD(UDiv(size + (DWORD - 1), DWORD))

\* the adjusted block size of a request of size bytes (lines 223-224)
AdjSize(size) ==
    IF ULe(size, DWORD)
    THEN 2 * DWORD
    ELSE MulDWORD(UDiv(size + DWORD + (DWORD - 1), DWORD))

\* line 231 growing by the block size alone
GrowSize_adj(adj_size) == adj_size

\* line 231
GrowSize(adj_size) == IF ULt(CHUNKSIZE, adj_size) THEN adj_size ELSE CHUNKSIZE

\* lines 232-234, g being what grow_heap returned
mm_malloc_grown(g, adj_size) ==
    IF g.ptr = NULL
    THEN [h |-> g.h, ptr |-> NULL]
    ELSE [h |-> put(g.h, g.ptr, adj_size), ptr |-> g.ptr]

\* lines 226-234 growing the heap whether or not fit found a block
mm_malloc_fit_grows(f, adj_size) ==
    IF f.h.fault
    THEN [h |-> f.h, ptr |-> NULL]
    ELSE mm_malloc_grown(grow_heap(f.h, UDiv(GrowSize(adj_size), HFSIZE)), adj_size)

\* lines 226-234, f being what fit returned
mm_malloc_fit(f, adj_size) ==
    IF f.h.fault
    THEN [h |-> f.h, ptr |-> NULL]
    ELSE IF f.ptr # NULL
    THEN [h |-> put(f.h, f.ptr, adj_size), ptr |-> f.ptr]
    ELSE mm_malloc_grown(grow_heap(f.h, UDiv(GrowSize(adj_size), HFSIZE)), adj_size)

\* lines 221-234
mm_malloc_size(h, size) ==
    IF size = 0
    THEN [h |-> h, ptr |-> NULL]
    ELSE mm_malloc_fit(fit(h, AdjSize(size)), AdjSize(size))

mm_malloc(h, size) == mm_malloc_size(lazy_init(h), size)

-----------------------------------------------------------------------------
(* mm_free *)

\* lines 251 and 253 without the footer of line 252
mm_free_size_head_only(h, ptr, size) ==
    coalesce(WRITE_HEAD(h, ptr, HF(size, 0)), ptr).h

\* lines 251-253
mm_free_size(h, ptr, size) ==
    coalesce(WRITE_FOOT(WRITE_HEAD(h, ptr, HF(size, 0)), ptr, HF(size, 0)), ptr).h

mm_free(h, ptr) ==
    IF ptr = 0
    THEN h
    ELSE mm_free_size(lazy_init(h), ptr, GET_SIZE(h, HEAD(ptr)))

-----------------------------------------------------------------------------
(* mm_realloc *)

\* memcpy(dst, src, n) on the word array, for word-aligned dst and src that
\* do not overlap; bytes within a word are little-endian
memcpy_tail(m, w, at, rem) ==
    IF rem = 0 THEN m ELSE [m EXCEPT ![at] = (w % (256^rem)) + (@ - (@ % (256^rem)))]

memcpy_words(m, di, si, full, rem) ==
    memcpy_tail(SubSeq(m, 1, di - 1) \o SubSeq(m, si, si + full - 1)
                  \o SubSeq(m, di + full, Len(m)),
                IF rem = 0 THEN 0 ELSE m[si + full], di + full, rem)

memcpy(h, dst, src, n) ==
    [h EXCEPT !.mem = memcpy_words(@, Idx(dst), Idx(src), n \div HFSIZE, n % HFSIZE)]

\* the number of bytes mm_realloc copies (lines 283-284)
CopyLen(oldsize, size) == IF ULt(size, oldsize) THEN size ELSE oldsize

\* lines 285-290 copying from the old block's header on
mm_realloc_copy_from_head(h, newptr, ptr, oldsize) ==
    [h |-> mm_free(memcpy(h, newptr, HEAD(ptr), oldsize), ptr), ptr |-> newptr,
     copied |-> oldsize]

\* lines 285-290
mm_realloc_copy(h, newptr, ptr, oldsize) ==
    [h |-> mm_free(memcpy(h, newptr, ptr, oldsize), ptr), ptr |-> newptr,
     copied |-> oldsize]

\* lines 277-290, freeing the old block also when mm_malloc failed
mm_realloc_new_frees(m, ptr, size) ==
    IF m.ptr = NULL
    THEN [h |-> mm_free(m.h, ptr), ptr |-> 0, copied |-> 0]
    ELSE mm_realloc_copy(m.h, m.ptr, ptr, CopyLen(GET_SIZE(m.h, HEAD(ptr)), size))

\* lines 277-290, m being what mm_malloc returned
mm_realloc_new(m, ptr, size) ==
    IF m.ptr = NULL
    THEN [h |-> m.h, ptr |-> 0, copied |-> 0]
    ELSE mm_realloc_copy(m.h, m.ptr, ptr, CopyLen(GET_SIZE(m.h, HEAD(ptr)), size))

\* line 272, m being what mm_malloc returned
mm_realloc_null(m) == [h |-> m.h, ptr |-> m.ptr, copied |-> 0]

\* mm_realloc returning NULL for a size of 0 without freeing the block
mm_realloc_keeps(h, ptr, size) ==
    IF size = 0
    THEN [h |-> h, ptr |-> 0, copied |-> 0]
    ELSE IF ptr = NULL
    THEN mm_realloc_null(mm_malloc(h, size))
    ELSE mm_realloc_new(mm_malloc(h, size), ptr, size)

mm_realloc(h, ptr, size) ==
    IF size = 0
    THEN [h |-> mm_free(h, ptr), ptr |-> 0, copied |-> 0]
    ELSE IF ptr = NULL
    THEN mm_realloc_null(mm_malloc(h, size))
    ELSE mm_realloc_new(mm_malloc(h, size), ptr, size)

-----------------------------------------------------------------------------
(* The client.  It fills the n bytes it asked for with a byte pattern of   *)
(* its own (the call's number) as soon as allocate returns, never touches  *)
(* anything else, and hands back only pointers it holds.                   *)

Pattern(tag) == tag * 16843009      \* the byte tag in all four bytes of a word

Fill(h, p, n, tag) ==
    [h EXCEPT !.mem = memcpy_tail(
        SubSeq(@, 1, Idx(p) - 1) \o [i \in 1..(n \div HFSIZE) |-> Pattern(tag)]
          \o SubSeq(@, Idx(p) + (n \div HFSIZE), Len(@)),
        Pattern(tag), Idx(p) + (n \div HFSIZE), n % HFSIZE)]

\* the heap record of the current state, with an empty provider log
Cur == [mem |-> mem, cap |-> cap, brk |-> brk, heapL |-> heapL, trav |-> trav,
        fault |-> FALSE, log |-> <<>>]

Commit(h) ==
    /\ mem' = h.mem
    /\ brk' = h.brk
    /\ heapL' = h.heapL
    /\ trav' = h.trav
    /\ fault' = h.fault
    /\ cap' = cap

NoOld == [p |-> 0, n |-> 0, tag |-> 0, len |-> 0]

IsFreeAt(h, ptr) == GET_ALLOC(h, HEAD(ptr)) = 0

\* one entry of hist: the call, its result, the provider requests it made
\* (log), the bytes it copied, the heap's state when it was made (init: heapL
\* was set; blk: the size of p's block), and the client's record of p (old)
Call(op, p, n, ret, h, copied, old) ==
    [op |-> op, p |-> p, n |-> n, ret |-> ret, log |-> h.log, copied |-> copied,
     init |-> (heapL # 0),
     blk |-> IF p # NULL THEN GET_SIZE(Cur, HEAD(p)) ELSE 0,
     old |-> old]

Init ==
    /\ mem = <<>>
    /\ cap \in Caps
    /\ brk = 0
    /\ heapL = 0
    /\ trav = 0
    /\ fault = FALSE
    /\ live = {}
    /\ hist = <<>>

\* init(), called by the client once, before anything else
MmInit ==
    /\ heapL = 0
    /\ \E r \in {mm_init(Cur)} :
         /\ Commit(r.h)
         /\ hist' = Append(hist, Call("init", NULL, 0, r.ret, r.h, 0, NoOld))
    /\ UNCHANGED live

\* allocate(n), or reallocate(NULL, n), returned r; on success the client
\* fills the n bytes
Allocated(op, n, r, tag) ==
    /\ \E h \in {IF r.ptr # NULL THEN Fill(r.h, r.ptr, n, tag) ELSE r.h} : Commit(h)
    /\ live' = IF r.ptr # NULL
               THEN live \cup {[p |-> r.ptr, n |-> n, tag |-> tag, len |-> n]}
               ELSE live
    /\ hist' = Append(hist, Call(op, NULL, n, r.ptr, r.h, 0, NoOld))

MmMalloc(n) ==
    \E r \in {mm_malloc(Cur, n)} : Allocated("malloc", n, r, Len(hist) + 1)

\* free(p) of a live allocation r
MmFree(r) ==
    /\ r \in live
    /\ \E h \in {mm_free(Cur, r.p)} :
         /\ Commit(h)
         /\ hist' = Append(hist, Call("free", r.p, 0, NULL, h, 0, r))
    /\ live' = live \ {r}

\* free(NULL)
MmFreeNull ==
    /\ \E h \in {mm_free(Cur, NULL)} :
         /\ Commit(h)
         /\ hist' = Append(hist, Call("free", NULL, 0, NULL, h, 0, NoOld))
    /\ UNCHANGED live

\* reallocate(p, n) of a live allocation r; the client keeps what it had
\* written, as far as the new size goes
MmRealloc(r, n) ==
    /\ r \in live
    /\ \E x \in {mm_realloc(Cur, r.p, n)} :
         /\ Commit(x.h)
         /\ hist' = Append(hist, Call("realloc", r.p, n, x.ptr, x.h, x.copied, r))
         /\ live' = IF n = 0
                    THEN live \ {r}
                    ELSE IF x.ptr = NULL
                    THEN live
                    ELSE (live \ {r}) \cup
                         {[p |-> x.ptr, n |-> n, tag |-> r.tag, len |-> Min(n, r.len)]}

\* reallocate(NULL, n)
MmReallocNull(n) ==
    \E x \in {mm_realloc(Cur, NULL, n)} : Allocated("realloc", n, x, Len(hist) + 1)

\* a crashed process makes no more calls
CanCall(max) == ~fault /\ Len(hist) < max

\* a call with a zero size or a NULL pointer
Degenerate(c) ==
    \/ c.op = "malloc" /\ c.n = 0
    \/ c.op = "free" /\ c.p = NULL
    \/ c.op = "realloc" /\ (c.p = NULL \/ c.n = 0)

CanDegenerate == Cardinality({i \in DOMAIN hist : Degenerate(hist[i])}) < MaxNull

Next ==
    /\ CanCall(MaxOps)
    /\ \/ MmInit
       \/ \E n \in Sizes : MmMalloc(n)
       \/ \E r \in live : MmFree(r)
       \/ \E r \in live, n \in Sizes : MmRealloc(r, n)
       \/ CanDegenerate /\ MmMalloc(0)
       \/ CanDegenerate /\ MmFreeNull
       \/ CanDegenerate /\ \E r \in live : MmRealloc(r, 0)
       \/ CanDegenerate /\ \E n \in Sizes \cup {0} : MmReallocNull(n)

Spec == Init /\ [][Next]_vars

\* the runs of allocate and free alone
NextFrag ==
    /\ CanCall(MaxFragOps)
    /\ \/ \E n \in FragSizes : MmMalloc(n)
       \/ \E r \in live : MmFree(r)

SpecFrag == Init /\ [][NextFrag]_vars

-----------------------------------------------------------------------------
(* The runs with requests near the maximum of size_t.  A client that is    *)
(* given a block for such a request writes beyond the heap when it uses    *)
(* the bytes it asked for; the run ends there.                             *)

MmMallocHuge(n) ==
    \E r \in {mm_malloc(Cur, n)} :
       /\ Commit(IF r.ptr # NULL THEN [r.h EXCEPT !.fault = TRUE] ELSE r.h)
       /\ hist' = Append(hist, Call("malloc", NULL, n, r.ptr, r.h, 0, NoOld))
       /\ UNCHANGED live

NextHuge ==
    \/ Next
    \/ CanCall(MaxOps) /\ \E n \in HugeSizes : MmMallocHuge(n)

SpecHuge == Init /\ [][NextHuge]_vars

-----------------------------------------------------------------------------
(* The runs of put alone.  The heap is the one that allocate(8),           *)
(* allocate(c - 8), allocate(8), free(second block) leave: a free block of *)
(* c bytes between two allocated blocks; put is applied to it once.        *)

Empty == [mem |-> <<>>, cap |-> MaxHeap, brk |-> 0, heapL |-> 0, trav |-> 0,
          fault |-> FALSE, log |-> <<>>]

\* the pointer of the second block
Hole == HeapBase + 4 * HFSIZE + 2 * DWORD

HoleHeap(c) ==
    mm_free(mm_malloc(mm_malloc(mm_malloc(Empty, DWORD).h, c - DWORD).h, DWORD).h, Hole)

InitPut ==
    /\ \E c \in PutSizes : \E h \in {HoleHeap(c)} :
          /\ mem = h.mem
          /\ brk = h.brk
          /\ heapL = h.heapL
          /\ trav = h.trav
          /\ fault = h.fault
    /\ cap = MaxHeap
    /\ live = {}
    /\ hist = <<>>

\* put(Hole, s) on the free block at Hole, if it has room
Put(s) ==
    /\ hist = <<>>
    /\ IsFreeAt(Cur, Hole)
    /\ s <= GET_SIZE(Cur, HEAD(Hole))
    /\ \E h \in {put(Cur, Hole, s)} :
          /\ Commit(h)
          /\ hist' = Append(hist, Call("put", Hole, s, NULL, h, 0, NoOld))
    /\ UNCHANGED live

NextPut == \E s \in PutSizes : Put(s)

SpecPut == InitPut /\ [][NextPut]_vars

-----------------------------------------------------------------------------
(* The block list of a heap h, as the macros walk it: the block pointers   *)
(* from the first real block, NEXT(heapL), up to the first header that     *)
(* holds no size.                                                          *)

Initialized(h) == h.heapL # 0 /\ h.heapL # SBRK_FAILED /\ ~h.fault

RECURSIVE BlockList(_, _)
BlockList(h, bp) ==
    IF ~Mapped(h, HEAD(bp)) \/ GET_SIZE(h, HEAD(bp)) <= 0
    THEN <<>>
    ELSE <<bp>> \o BlockList(h, NEXT(h, bp))

BlocksOf(h) == IF Initialized(h) THEN BlockList(h, NEXT(h, h.heapL)) ELSE <<>>

\* where the walk that gave the blocks bs stopped
WalkEnd(h, bs) ==
    IF bs = <<>> THEN NEXT(h, h.heapL) ELSE NEXT(h, bs[Len(bs)])

RECURSIVE SumSizes(_, _)
SumSizes(h, bs) ==
    IF bs = <<>> THEN 0 ELSE GET_SIZE(h, HEAD(bs[1])) + SumSizes(h, Tail(bs))

IsFree(h, bp) == GET_ALLOC(h, HEAD(bp)) = 0

\* the blocks among bs that hold the byte at address a (one or none)
BlockAt(h, bs, a) ==
    {i \in DOMAIN bs : HEAD(bs[i]) <= a /\ a < HEAD(bs[i]) + GET_SIZE(h, HEAD(bs[i]))}

\* the payload of the allocation r lies in the allocated block of bs whose
\* block pointer is r.p, before its footer
InOwnBlock(h, bs, r) ==
    /\ \E i \in DOMAIN bs : bs[i] = r.p
    /\ ~IsFree(h, r.p)
    /\ r.p + r.n <= FOOT(h, r.p)

\* no two consecutive blocks of bs are both free
NoAdjacentFree(h, bs) ==
    \A i \in 1..(Len(bs) - 1) : ~(IsFree(h, bs[i]) /\ IsFree(h, bs[i + 1]))

\* the sizes of the blocks bs are multiples of 8 and at least 16
SizesAligned(h, bs) ==
    \A i \in DOMAIN bs :
        GET_SIZE(h, HEAD(bs[i])) % DWORD = 0 /\ GET_SIZE(h, HEAD(bs[i])) >= 2 * DWORD

\* the walk that gave bs stopped at the end sentinel, the last word of the
\* heap, and the blocks are as large as the heap that was grown
Tiled(h, bs) ==
    /\ HEAD(WalkEnd(h, bs)) = HeapBase + h.brk - HFSIZE
    /\ READ(h, HEAD(WalkEnd(h, bs))) = HF(0, 1)
    /\ SumSizes(h, bs) = h.brk - 4 * HFSIZE

\* the first k bytes at address p of the word array m
Bytes(m, p, k) ==
    <<SubSeq(m, Idx(p), Idx(p) + (k \div HFSIZE) - 1),
      IF k % HFSIZE = 0 THEN 0 ELSE m[Idx(p) + (k \div HFSIZE)] % (256^(k % HFSIZE))>>

\* the first k bytes of the pattern of tag
PatternBytes(k, tag) ==
    <<[i \in 1..(k \div HFSIZE) |-> Pattern(tag)],
      IF k % HFSIZE = 0 THEN 0 ELSE Pattern(tag) % (256^(k % HFSIZE))>>

Blocks == BlocksOf(Cur)
Last == hist[Len(hist)]

-----------------------------------------------------------------------------
\* C1: after any sequence of calls, no two blocks adjacent in the block list
\* are both free, the block made by a heap growth and its predecessor
\* included.
C1_NoAdjacentFree == NoAdjacentFree(Cur, Blocks)

\* a free(p) whose block was merged with a free neighbour, in a heap that
\* grew after init
C1_Witness ==
    /\ hist # <<>> /\ Last.op = "free" /\ Last.p # NULL /\ ~fault
    /\ brk > 4 * HFSIZE + CHUNKSIZE
    /\ \E i \in BlockAt(Cur, Blocks, HEAD(Last.p)) :
          /\ IsFree(Cur, Blocks[i])
          /\ GET_SIZE(Cur, HEAD(Blocks[i])) > Last.blk

-----------------------------------------------------------------------------
\* C2: the payload [p, p+n) of every live allocation lies inside its own
\* allocated block, between the header and the footer; it is disjoint from
\* the payload of every other live allocation; and no allocator operation
\* has written to it: it still holds what the client stored.
C2_PayloadOwned ==
    \A r \in live :
        /\ InOwnBlock(Cur, Blocks, r)
        /\ \A q \in live \ {r} : r.p + r.n <= q.p \/ q.p + q.n <= r.p
        /\ Bytes(mem, r.p, r.len) = PatternBytes(r.len, r.tag)

\* the first allocation, of a size that ends inside a word, is still live
\* after a placement without a split, a heap growth and a free next to it
C2_Witness ==
    /\ Len(hist) >= 4 /\ ~fault
    /\ \E r \in live : r.tag = 1 /\ r.n % HFSIZE # 0
    /\ brk > 4 * HFSIZE + CHUNKSIZE
    /\ Last.op = "free" /\ Last.p # NULL

-----------------------------------------------------------------------------
\* C3: every non-NULL pointer returned by allocate or reallocate is a
\* multiple of 8, and every block of the list, allocated or free, has a size
\* that is a multiple of 8 and at least 16.
C3_Aligned ==
    /\ \A i \in DOMAIN hist :
          (hist[i].op \in {"malloc", "realloc"} /\ hist[i].ret # NULL)
              => hist[i].ret % DWORD = 0
    /\ \A r \in live : r.p % DWORD = 0
    /\ SizesAligned(Cur, Blocks)

\* reallocate returned a block that was placed without a split (it is larger
\* than the adjusted size), and the list holds a free block
C3_Witness ==
    /\ hist # <<>> /\ ~fault
    /\ Last.op = "realloc" /\ Last.p # NULL /\ Last.ret # NULL
    /\ GET_SIZE(Cur, HEAD(Last.ret)) > AdjSize(Last.n)
    /\ \E i \in DOMAIN Blocks : IsFree(Cur, Blocks[i])

-----------------------------------------------------------------------------
\* C4: on a heap that init has set up, the walk of the block list by header
\* sizes from the first real block stops at the end sentinel, the last word
\* of the heap, and the sizes of the blocks sum to the bytes granted after
\* the 16-byte skeleton.
C4_Tiling ==
    Initialized(Cur) => Tiled(Cur, Blocks)

\* a heap that grew after init and holds a split block and three blocks or
\* more
C4_Witness ==
    /\ Initialized(Cur)
    /\ brk > 4 * HFSIZE + CHUNKSIZE
    /\ Len(Blocks) >= 3
    /\ \E i \in DOMAIN Blocks : IsFree(Cur, Blocks[i])

-----------------------------------------------------------------------------
\* C5: when the provider refuses every request, allocate(n) with n > 0
\* returns NULL, without a crash and without an access outside the granted
\* heap, the first call on an uninitialized heap included.
C5_NullOnExhaustion ==
    (hist # <<>> /\ cap = 0 /\ Last.op = "malloc" /\ Last.n > 0)
        => (~fault /\ Last.ret = NULL)

-----------------------------------------------------------------------------
\* the call c, an allocate or a reallocate of a size > 0, found no fit and
\* the provider refused to grow the heap
FailedAlloc(c) ==
    /\ c.op \in {"malloc", "realloc"} /\ c.n > 0 /\ c.ret = NULL
    /\ c.log # <<>>
    /\ \A i \in DOMAIN c.log : ~c.log[i].ok

\* the step is the call hist'[Len(hist')]
IsCall == Len(hist') = Len(hist) + 1

\* C6: on an initialized heap, an allocate or reallocate of a size > 0 that
\* finds no fit and is refused by the provider returns NULL and leaves every
\* word of the heap (headers, footers and contents), the live allocations
\* and the search cursor as they were.
C6_FailureLeavesState ==
    [][(Initialized(Cur) /\ IsCall /\ FailedAlloc(hist'[Len(hist')]))
          => /\ mem' = mem /\ brk' = brk /\ heapL' = heapL /\ trav' = trav
             /\ live' = live /\ ~fault']_vars

\* a reallocate of a live block has failed, with the cursor inside the list
C6_Witness ==
    /\ hist # <<>> /\ FailedAlloc(Last)
    /\ Last.op = "realloc" /\ Last.p # NULL /\ Last.init
    /\ Initialized(Cur) /\ trav # heapL
    /\ \E r \in live : r.p = Last.p

-----------------------------------------------------------------------------
\* some free block among bs has room for a block of adj_size bytes
HasFit(h, bs, adj_size) ==
    \E i \in DOMAIN bs : IsFree(h, bs[i]) /\ GET_SIZE(h, HEAD(bs[i])) >= adj_size

\* the adjusted size of a request of n bytes, as C7 words it: 16 if n <= 8,
\* else n + 8 rounded up to a multiple of 8
Adjusted(n) == IF n <= 8 THEN 16 ELSE ((n + 8 + 7) \div 8) * 8

Max(a, b) == IF a > b THEN a ELSE b

\* the call c asked the provider for anything only if no free block of bs
\* had room for its adjusted size, and then once, for the larger of the
\* adjusted size and 4096 bytes
GrowsOnMiss(h, bs, c) ==
    c.log # <<>> =>
        /\ ~HasFit(h, bs, Adjusted(c.n))
        /\ Len(c.log) = 1
        /\ c.log[1].incr = Max(Adjusted(c.n), 4096)

\* the calls h begin, on a fresh heap, with allocate(32) three times giving
\* p1, p2 and p3, then free(p1), free(p2), then allocate(56)
Fragmented(h) ==
    /\ Len(h) >= 6
    /\ \A i \in 1..3 : h[i].op = "malloc" /\ h[i].n = 32 /\ h[i].ret # NULL
    /\ h[4].op = "free" /\ h[4].p = h[1].ret
    /\ h[5].op = "free" /\ h[5].p = h[2].ret
    /\ h[6].op = "malloc" /\ h[6].n = 56

\* C7 as stated, for every allocate(n) with n > 0: it asks the provider only
\* if no free block of the list has room for the adjusted size, and then
\* once, for max(adjusted size, 4096) bytes; and the allocate(56) of the
\* fragmentation scenario succeeds without growing the heap.
C7_GrowsOnlyOnMiss ==
    [][/\ (IsCall /\ hist'[Len(hist')].op = "malloc" /\ hist'[Len(hist')].n > 0)
            => GrowsOnMiss(Cur, Blocks, hist'[Len(hist')])
       /\ Fragmented(hist') => (hist'[6].ret # NULL /\ hist'[6].log = <<>>)]_vars

\* C7 for the allocate(n), n > 0, of an initialized heap (heapL is set): it
\* asks the provider only if no free block of the list has room for the
\* adjusted size, and then once, for max(adjusted size, 4096) bytes; and the
\* allocate(56) of the fragmentation scenario, on a fresh heap, succeeds
\* without growing the heap.
C7_GrowsOnlyOnMissInitialized ==
    [][/\ (/\ IsCall /\ Initialized(Cur)
           /\ hist'[Len(hist')].op = "malloc" /\ hist'[Len(hist')].n > 0)
            => GrowsOnMiss(Cur, Blocks, hist'[Len(hist')])
       /\ Fragmented(hist') => (hist'[6].ret # NULL /\ hist'[6].log = <<>>)]_vars

\* an allocate on an initialized heap whose free blocks were all too small
\* has grown the heap by more than a chunk
C7_Witness ==
    /\ hist # <<>> /\ Last.op = "malloc" /\ Last.init /\ Last.ret # NULL
    /\ Last.log = <<[incr |-> Adjusted(Last.n), ok |-> TRUE]>>
    /\ Adjusted(Last.n) > 4096
    /\ \E i \in DOMAIN Blocks : IsFree(Cur, Blocks[i])

\* the fragmentation scenario has run to its end
C7_ScenarioReached == Fragmented(hist) /\ hist[6].ret # NULL /\ ~fault

-----------------------------------------------------------------------------
\* the calls h[k], h[k+1], h[k+2] are allocate(n) returning p, free(p) and
\* allocate(n) again, n > 0
FreeThenRefit(h, k) ==
    /\ h[k].op = "malloc" /\ h[k].n > 0 /\ h[k].ret # NULL
    /\ h[k + 1].op = "free" /\ h[k + 1].p = h[k].ret
    /\ h[k + 2].op = "malloc" /\ h[k + 2].n = h[k].n

\* C8: wherever allocate(n) returning p, free(p) and allocate(n) follow one
\* another, the second allocate makes no request to the provider and returns
\* p again: its block starts where the freed block started.
C8_FreeThenRefit ==
    \A k \in 1..(Len(hist) - 2) :
        FreeThenRefit(hist, k)
            => (hist[k + 2].log = <<>> /\ hist[k + 2].ret = hist[k].ret)

\* the three calls were made after three others, the last of them a free,
\* and the first allocate of the three had grown the heap
C8_Witness ==
    /\ Len(hist) >= 6 /\ ~fault
    /\ FreeThenRefit(hist, 4)
    /\ hist[3].op = "free"
    /\ \E i \in DOMAIN hist[4].log : hist[4].log[i].ok

-----------------------------------------------------------------------------
\* the call c is a reallocate(p, n) with p # NULL and n > 0 that succeeded
Reallocated(c) == c.op = "realloc" /\ c.p # NULL /\ c.n > 0 /\ c.ret # NULL

\* C9: a successful reallocate(p, n), p # NULL and n > 0, copies exactly
\* min(n, usable payload of p's old block) bytes, the usable payload being
\* the block's size less its header and footer; it reads nothing beyond the
\* old payload.
C9_CopiesPayloadOnly ==
    \A i \in DOMAIN hist :
        Reallocated(hist[i]) => hist[i].copied = Min(hist[i].n, hist[i].blk - DWORD)

-----------------------------------------------------------------------------
\* the allocation with pointer p lies in a block of bs that was free in h, or
\* in none of them
WasFree(h, bs, p) == \A i \in BlockAt(h, bs, HEAD(p)) : IsFree(h, bs[i])

\* the block of bs that holds the header of p is free
NowFree(h, bs, p) ==
    /\ BlockAt(h, bs, HEAD(p)) # {}
    /\ \A i \in BlockAt(h, bs, HEAD(p)) : IsFree(h, bs[i])

\* the successful reallocate c took the heap from h (blocks bs) to g (blocks
\* gs), with the allocations lv live before it
Moved(h, bs, g, gs, lv, c) ==
    /\ c.ret # c.p
    /\ WasFree(h, bs, c.ret)
    /\ InOwnBlock(g, gs, [p |-> c.ret, n |-> c.n])
    /\ Bytes(g.mem, c.ret, Min(c.n, c.old.n)) = Bytes(h.mem, c.p, Min(c.n, c.old.n))
    /\ NowFree(g, gs, c.p)
    /\ NoAdjacentFree(g, gs)
    /\ \A q \in lv \ {c.old} :
          /\ InOwnBlock(g, gs, q)
          /\ READ(g, HEAD(q.p)) = READ(h, HEAD(q.p))
          /\ Bytes(g.mem, q.p, q.n) = Bytes(h.mem, q.p, q.n)

\* C10: a successful reallocate(p, n), p # NULL and n > 0, returns a pointer
\* q # p to an allocated block that was free space before the call; the
\* first min(n, m) bytes at q are the first min(n, m) bytes that were at p, m
\* being the size requested for p; after the call p's old block is free and
\* merged with its free neighbours; every other live allocation keeps its
\* block and its contents.
C10_ReallocMoves ==
    [][(IsCall /\ Reallocated(hist'[Len(hist')]))
          => /\ \E g \in {Cur'} :
                  Moved(Cur, Blocks, g, BlocksOf(g), live, hist'[Len(hist')])
             /\ live' \ {r \in live' : r.p = hist'[Len(hist')].ret}
                  = live \ {hist'[Len(hist')].old}]_vars

\* a reallocate to a smaller size succeeded while another allocation was
\* live
C10_Witness ==
    /\ hist # <<>> /\ Reallocated(Last) /\ ~fault
    /\ Last.n < Last.old.n
    /\ \E q \in live : q.p # Last.ret

-----------------------------------------------------------------------------
\* in the heap h, reallocate(p, 0) returns NULL and leaves what free(p) leaves
SameAsFree(h, p) ==
    /\ mm_realloc(h, p, 0).ptr = NULL
    /\ mm_realloc(h, p, 0).h = mm_free(h, p)

\* in the heap h, reallocate(NULL, n) returns what allocate(n) returns and
\* leaves what it leaves
SameAsMalloc(h, n) ==
    /\ mm_realloc(h, NULL, n).ptr = mm_malloc(h, n).ptr
    /\ mm_realloc(h, NULL, n).h = mm_malloc(h, n).h

\* the call c in the heap h: a free(p) or a reallocate(p, 0) could have been
\* the other
FreeSame(h, c) ==
    /\ (c.op = "free" \/ (c.op = "realloc" /\ c.n = 0)) => SameAsFree(h, c.p)
    /\ (c.op = "realloc" /\ c.n = 0) => c.ret = NULL

\* the call c in the heap h: an allocate(n) or a reallocate(NULL, n) could
\* have been the other
MallocSame(h, c) ==
    (c.op = "malloc" \/ (c.op = "realloc" /\ c.p = NULL)) => SameAsMalloc(h, c.n)

\* C11 as stated: from any reachable state, reallocate(p, 0) returns NULL
\* and leaves the heap and the cursor exactly as free(p) leaves them, and
\* reallocate(NULL, n) returns the pointer and leaves the state that
\* allocate(n) does, for any n; it is compared at every call of one of the
\* four forms.
C11_DegenerateRealloc ==
    [][IsCall => /\ FreeSame(Cur, hist'[Len(hist')])
                 /\ MallocSame(Cur, hist'[Len(hist')])]_vars

\* C11 with n > 0 in its second half: from any reachable state,
\* reallocate(p, 0), p NULL or not, returns NULL and leaves the heap and the
\* cursor exactly as free(p) leaves them, and reallocate(NULL, n) with n > 0
\* returns the pointer and leaves the state that allocate(n) does.
C11_DegenerateReallocPositive ==
    [][IsCall => /\ FreeSame(Cur, hist'[Len(hist')])
                 /\ hist'[Len(hist')].n > 0 => MallocSame(Cur, hist'[Len(hist')])]_vars

\* a reallocate(p, 0) of a live block was followed by an allocate that got
\* p's space again
C11_Witness ==
    /\ Len(hist) >= 3 /\ ~fault
    /\ \E k \in 2..(Len(hist) - 1) :
          /\ hist[k].op = "realloc" /\ hist[k].p # NULL /\ hist[k].n = 0
          /\ hist[k - 1].op = "malloc" /\ hist[k - 1].n > 0
          /\ hist[k + 1].op = "malloc" /\ hist[k + 1].ret = hist[k].p

-----------------------------------------------------------------------------
\* the heap h is: a padding word, a start sentinel of 8 bytes (an allocated
\* header and footer), one free block of 4096 bytes with its header and its
\* footer, and the end sentinel, an allocated header of size 0, as the last
\* word
FreshLayout(h) ==
    /\ h.brk = 4 * HFSIZE + 4096
    /\ Len(h.mem) = 4 + 1024
    /\ h.mem[2] = 8 + 1 /\ h.mem[3] = 8 + 1
    /\ h.heapL = HeapBase + 8
    /\ BlocksOf(h) = <<HeapBase + 16>>
    /\ h.mem[4] = 4096 /\ h.mem[4 + 1023] = 4096
    /\ h.mem[4 + 1024] = 1

\* every request of the call c was granted
AllGranted(c) == \A i \in DOMAIN c.log : c.log[i].ok

\* C12: when the provider grants its requests, init returns success (0) and
\* leaves exactly the padding, the allocated start sentinel of 8 bytes, one
\* free block of 4096 bytes with matching header and footer, and the
\* allocated end sentinel header of size 0 at the top of the heap; when the
\* provider refuses the 16 bytes of the skeleton or the 4096 bytes of the
\* initial growth, init returns failure (-1).
C12_InitLayout ==
    (hist # <<>> /\ Last.op = "init") =>
        /\ AllGranted(Last) => (Last.ret = 0 /\ FreshLayout(Cur))
        /\ ~AllGranted(Last) => Last.ret = -1
        /\ Last.log # <<>> /\ Last.log[1].incr = 4 * HFSIZE
        /\ Len(Last.log) = 2 => Last.log[2].incr = 4096

\* init has returned success
C12_Witness ==
    /\ hist # <<>> /\ Last.op = "init" /\ Last.ret = 0 /\ Len(Last.log) = 2

-----------------------------------------------------------------------------
\* C13: immediately after a successful init, the search cursor is the first
\* real block, the free block of 4096 bytes that follows the start sentinel,
\* and not the start sentinel.
C13_CursorAtFirstBlock ==
    (hist # <<>> /\ Last.op = "init" /\ Last.ret = 0) =>
        (trav = NEXT(Cur, heapL) /\ trav # heapL /\ Blocks = <<trav>>)

-----------------------------------------------------------------------------
\* t is the block pointer of the start sentinel, of a block of bs, or of the
\* end sentinel
OnBlock(h, bs, t) ==
    \/ t = h.heapL
    \/ \E i \in DOMAIN bs : bs[i] = t
    \/ t = WalkEnd(h, bs)

\* C14: on a heap that init has set up, after init and after every allocate,
\* free and reallocate, the search cursor is the block pointer of a block of
\* the list, from the start sentinel to the end sentinel; it never points
\* into a block.
C14_CursorOnBlock == Initialized(Cur) => OnBlock(Cur, Blocks, trav)

\* the cursor was on the block b that allocate had just returned; b's
\* predecessor was freed, then b: the merge swallowed b and the cursor is on
\* the merged block
C14_Witness ==
    /\ Len(hist) >= 4 /\ ~fault
    /\ hist[2].op = "malloc" /\ hist[2].ret # NULL
    /\ hist[3].op = "free" /\ hist[3].p # NULL /\ hist[3].p < hist[2].ret
    /\ hist[4].op = "free" /\ hist[4].p = hist[2].ret
    /\ trav < hist[2].ret /\ trav # heapL
    /\ trav + GET_SIZE(Cur, HEAD(trav)) > hist[2].ret

-----------------------------------------------------------------------------
\* the blocks bs in cyclic order from the cursor t: those from t to the end
\* of the list, then those from the start of the list to just before t
Cyclic(bs, t) ==
    SelectSeq(bs, LAMBDA b : b >= t) \o SelectSeq(bs, LAMBDA b : b < t)

\* the blocks of bs that are free and have room for s bytes
Fitting(h, bs, s) ==
    SelectSeq(bs, LAMBDA b : IsFree(h, b) /\ GET_SIZE(h, HEAD(b)) >= s)

\* f is what the search for s bytes must give in the heap h, fs being the
\* fitting blocks in cyclic order: the first of them, with the cursor on it
\* and nothing else changed, or NULL if there is none
NextFit(h, fs, f) ==
    /\ IF fs = <<>> THEN f.ptr = NULL ELSE (f.ptr = fs[1] /\ f.h.trav = fs[1])
    /\ [f.h EXCEPT !.trav = h.trav] = h

\* C15: the fit search for the adjusted size s returns the first block, in
\* cyclic order from the cursor's block (forward to the end sentinel, then
\* from the start of the list to just before the cursor), that is free and
\* has size >= s, and leaves the cursor on it; it returns NULL if and only
\* if no free block of the list has size >= s.  It is compared in the heap
\* (initialized) of every allocate and reallocate of a size > 0.
C15_NextFit ==
    [][(/\ IsCall /\ Initialized(Cur)
        /\ hist'[Len(hist')].op \in {"malloc", "realloc"}
        /\ hist'[Len(hist')].n > 0)
          => NextFit(Cur,
                     Fitting(Cur, Cyclic(Blocks, trav), AdjSize(hist'[Len(hist')].n)),
                     fit(Cur, AdjSize(hist'[Len(hist')].n)))]_vars

\* the cursor was on the block of the second call, a free followed, and the
\* allocate after it got a block before the cursor: the search wrapped
\* around
C15_Witness ==
    /\ Len(hist) >= 4 /\ ~fault
    /\ hist[2].op = "malloc" /\ hist[2].ret # NULL
    /\ hist[3].op = "free" /\ hist[3].p # NULL
    /\ hist[4].op = "malloc" /\ hist[4].ret # NULL /\ hist[4].log = <<>>
    /\ hist[4].ret < hist[2].ret
    /\ \E r \in live : r.p = hist[2].ret

-----------------------------------------------------------------------------
\* the free blocks of bs that end where the block b starts, and those that
\* start at e (one or none each)
PredFree(h, bs, b) == {i \in DOMAIN bs : NEXT(h, bs[i]) = b /\ IsFree(h, bs[i])}
SuccFree(h, bs, e) == {i \in DOMAIN bs : bs[i] = e /\ IsFree(h, bs[i])}

\* the pointer and the size of the one block of bs that I holds, or b and
\* 0 if I is empty
StartOf(bs, I, b) == IF I = {} THEN b ELSE bs[CHOOSE i \in I : TRUE]
SizeOf(h, bs, I) == IF I = {} THEN 0 ELSE GET_SIZE(h, HEAD(bs[CHOOSE i \in I : TRUE]))

\* in the heap g, of blocks gs, a free block of msize bytes starts at start:
\* its header and its footer are the word (msize, free); and the words that
\* h had outside that block are the same in g
MergedAs(h, g, gs, start, msize) ==
    /\ \E i \in DOMAIN gs : gs[i] = start
    /\ READ(g, HEAD(start)) = HF(msize, 0)
    /\ READ(g, start + msize - DWORD) = HF(msize, 0)
    /\ SubSeq(g.mem, 1, Idx(HEAD(start)) - 1) = SubSeq(h.mem, 1, Idx(HEAD(start)) - 1)
    /\ SubSeq(g.mem, Idx(start + msize - HFSIZE), Len(h.mem))
          = SubSeq(h.mem, Idx(start + msize - HFSIZE), Len(h.mem))

\* coalescing the block b of size bytes, freed or grown in the heap h of
\* blocks bs, gave the heap g: one free block that spans b and its free
\* neighbours in h, and starts at the predecessor if that was free
Coalesced(h, bs, b, size, g) ==
    MergedAs(h, g, BlocksOf(g),
             StartOf(bs, PredFree(h, bs, b), b),
             size + SizeOf(h, bs, PredFree(h, bs, b))
                  + SizeOf(h, bs, SuccFree(h, bs, b + size)))

\* the call c grew an initialized heap
Grew(c) ==
    /\ c.op \in {"malloc", "realloc"} /\ c.init /\ c.log # <<>>
    /\ c.log[Len(c.log)].ok

\* C16: coalescing a freshly freed or freshly grown block b gives one free
\* block that spans exactly b and each adjacent free neighbour; its size is
\* the sum of their sizes; it starts at the predecessor if that was free and
\* at b otherwise; its header and footer are the combined (size, free) word;
\* no word outside the merged span is modified.  It is compared at every
\* free(p) and reallocate(p, 0) with p # NULL, and for the growth of every
\* allocate that grows the heap.
C16_Coalesce ==
    [][IsCall =>
         /\ (hist'[Len(hist')].op = "free" /\ hist'[Len(hist')].p # NULL)
               => \E g \in {Cur'} :
                     Coalesced(Cur, Blocks, hist'[Len(hist')].p, hist'[Len(hist')].blk, g)
         /\ (hist'[Len(hist')].op = "realloc" /\ hist'[Len(hist')].p # NULL
               /\ hist'[Len(hist')].n = 0)
               => \E g \in {Cur'} :
                     Coalesced(Cur, Blocks, hist'[Len(hist')].p, hist'[Len(hist')].blk, g)
         /\ (Initialized(Cur) /\ Grew(hist'[Len(hist')]))
               => \E r \in {grow_heap(Cur, UDiv(GrowSize(AdjSize(hist'[Len(hist')].n)), HFSIZE))} :
                     /\ r.ptr = StartOf(Blocks, PredFree(Cur, Blocks, WalkEnd(Cur, Blocks)),
                                        WalkEnd(Cur, Blocks))
                     /\ Coalesced(Cur, Blocks, WalkEnd(Cur, Blocks),
                                  GrowSize(AdjSize(hist'[Len(hist')].n)), r.h)]_vars

\* a free(p) merged p's block with a free predecessor and a free successor
C16_Witness ==
    /\ hist # <<>> /\ Last.op = "free" /\ Last.p # NULL /\ ~fault
    /\ \E i \in DOMAIN Blocks :
          /\ Blocks[i] < Last.p /\ IsFree(Cur, Blocks[i])
          /\ NEXT(Cur, Blocks[i]) > Last.p + Last.blk

\* an allocate grew the heap behind a free last block
C16_GrowthReached ==
    /\ hist # <<>> /\ Grew(Last) /\ Last.ret # NULL /\ ~fault
    /\ Last.ret < HeapBase + 4 * HFSIZE + CHUNKSIZE

-----------------------------------------------------------------------------
\* the pointers of the blocks bs
Pointers(bs) == {bs[i] : i \in DOMAIN bs}

\* put of s bytes at the free block p of c bytes of the heap h gave g: p is
\* allocated with s bytes and followed by a free block of c - s bytes if that
\* is 16 or more, and allocated with all c bytes otherwise; the words h had
\* outside the block are the same in g; no block is smaller than 16 bytes
Placed(h, bs, g, gs, p, s, c) ==
    /\ IsFree(h, p) /\ c = GET_SIZE(h, HEAD(p)) /\ c >= s
    /\ IF c - s >= 16
       THEN /\ READ(g, HEAD(p)) = s + 1 /\ READ(g, p + s - 8) = s + 1
            /\ READ(g, HEAD(p + s)) = c - s /\ READ(g, p + c - 8) = c - s
            /\ Pointers(gs) = Pointers(bs) \cup {p + s}
            /\ Len(gs) = Len(bs) + 1
       ELSE /\ READ(g, HEAD(p)) = c + 1 /\ READ(g, p + c - 8) = c + 1
            /\ gs = bs
    /\ SubSeq(g.mem, 1, Idx(HEAD(p)) - 1) = SubSeq(h.mem, 1, Idx(HEAD(p)) - 1)
    /\ SubSeq(g.mem, Idx(p + c - HFSIZE), Len(g.mem))
          = SubSeq(h.mem, Idx(p + c - HFSIZE), Len(h.mem))
    /\ SizesAligned(g, gs)
    /\ SumSizes(g, gs) = SumSizes(h, bs)

\* C17: placing an adjusted size s into a free block of size c >= s splits
\* it, if c - s >= 16, into an allocated block of exactly s bytes at the
\* original start and a free block of exactly c - s bytes; otherwise all c
\* bytes are marked allocated and no block is created; the total size c is
\* kept and no block smaller than 16 bytes is made.
C17_PutSplits ==
    [][(IsCall /\ hist'[Len(hist')].op = "put")
          => \E g \in {Cur'} :
                Placed(Cur, Blocks, g, BlocksOf(g), hist'[Len(hist')].p,
                       hist'[Len(hist')].n, hist'[Len(hist')].blk)]_vars

\* put has split a block and left a free block of exactly 16 bytes
C17_Witness ==
    /\ hist # <<>> /\ Last.op = "put" /\ ~fault
    /\ Last.blk - Last.n = 16
    /\ READ(Cur, HEAD(Last.p + Last.n)) = 16

\* put has marked a whole block allocated that was 8 bytes larger than asked
C17_WholeReached ==
    /\ hist # <<>> /\ Last.op = "put" /\ ~fault
    /\ Last.blk - Last.n = 8
    /\ READ(Cur, HEAD(Last.p)) = Last.blk + 1

-----------------------------------------------------------------------------
\* the footer word of the block bp is its header word
FooterIsHeader(h, bp) == READ(h, FOOT(h, bp)) = READ(h, HEAD(bp))

\* C18: after init and after every allocate, free and reallocate returns,
\* every block of the block list, the start sentinel and all real blocks,
\* free or allocated, has a footer word equal to its header word.
C18_FooterIsHeader ==
    Initialized(Cur)
       => \A bp \in {heapL} \cup Pointers(Blocks) : FooterIsHeader(Cur, bp)

\* a free has returned and left free and allocated blocks, the client's data
\* in place, with the footers and headers of all of them equal
C18_Witness ==
    /\ hist # <<>> /\ Last.op = "free" /\ Initialized(Cur)
    /\ \E i \in DOMAIN Blocks : IsFree(Cur, Blocks[i])
    /\ \E i \in DOMAIN Blocks : ~IsFree(Cur, Blocks[i])
    /\ live # {}
    /\ \A bp \in {heapL} \cup Pointers(Blocks) : FooterIsHeader(Cur, bp)

-----------------------------------------------------------------------------
\* the mark of a scan that left the heap or did not end within its bound
Lost == -2

\* the pointers the first loop of fit takes when no block fits, from t on:
\* the blocks it examines and, last, the pointer whose header has size 0
RECURSIVE FwdScan(_, _, _)
FwdScan(h, t, fuel) ==
    IF fuel = 0 \/ ~Mapped(h, HEAD(t))
    THEN <<Lost>>
    ELSE IF GET_SIZE(h, HEAD(t)) = 0
    THEN <<t>>
    ELSE <<t>> \o FwdScan(h, NEXT(h, t), fuel - 1)

\* the pointers the second loop of fit takes when no block fits, from t on:
\* the blocks it examines and, last, the pointer that is not below origtrav
RECURSIVE WrapScan(_, _, _, _)
WrapScan(h, t, origtrav, fuel) ==
    IF fuel = 0
    THEN <<Lost>>
    ELSE IF ~ULt(t, origtrav)
    THEN <<t>>
    ELSE IF ~Mapped(h, HEAD(t))
    THEN <<Lost>>
    ELSE <<t>> \o WrapScan(h, NEXT(h, t), origtrav, fuel - 1)

Front(sq) == SubSeq(sq, 1, Len(sq) - 1)

\* the forward scan f ended on the end sentinel, the wrap-around scan w on the
\* cursor, and no block was examined twice
ScansEnd(h, f, w) ==
    /\ f[Len(f)] = HeapBase + h.brk
    /\ w[Len(w)] = h.trav
    /\ Cardinality(Pointers(Front(f) \o Front(w))) = Len(f) + Len(w) - 2

\* a search that finds no block examines each block of the list once
ScansAll(h, bs, f, w) ==
    /\ ScansEnd(h, f, w)
    /\ Pointers(Front(f) \o Front(w)) = {h.heapL} \cup Pointers(bs)

\* C19: on every reachable heap state, each call of allocate, free and
\* reallocate terminates: the forward scan of the fit search reaches the end
\* sentinel and its wrap-around scan reaches the original cursor position, so
\* each block is examined at most once per search.  (A call searches the
\* state as it is once heapL is set; free has no loop, reallocate has those
\* of allocate and a copy of a block's length.)
C19_SearchEnds ==
    heapL # 0
       => ScansEnd(Cur, FwdScan(Cur, trav, Len(mem) + 1),
                   WrapScan(Cur, heapL, trav, Len(mem) + 1))

\* the same on the heaps whose skeleton the provider granted, where the
\* search examines every block of the list exactly once when nothing fits
C19_SearchEndsInitialized ==
    Initialized(Cur)
       => ScansAll(Cur, Blocks, FwdScan(Cur, trav, Len(mem) + 1),
                   WrapScan(Cur, heapL, trav, Len(mem) + 1))

\* a search starts in the middle of a list of three or more blocks
C19_WrapReached ==
    /\ Initialized(Cur) /\ Len(Blocks) >= 3
    /\ Len(WrapScan(Cur, heapL, trav, Len(mem) + 1)) >= 3
    /\ Len(FwdScan(Cur, trav, Len(mem) + 1)) >= 2

-----------------------------------------------------------------------------
\* the words of h outside the block p of c bytes are the same in g
OutsideKept(h, g, p, c) ==
    /\ SubSeq(g.mem, 1, Idx(HEAD(p)) - 1) = SubSeq(h.mem, 1, Idx(HEAD(p)) - 1)
    /\ SubSeq(g.mem, Idx(p + c - HFSIZE), Len(g.mem))
          = SubSeq(h.mem, Idx(p + c - HFSIZE), Len(h.mem))

\* a is at least n + 8 as numbers: n + 8 does not exceed 2^32 - 1 and a
NotBelow(a, n) == ULe(8, a) /\ ULe(n, a - 8)

\* C20: for every request size n > 0 of the size type, values near its
\* maximum included, the adjusted size computed by allocate does not wrap
\* around: it is at least n + 8; allocate never returns a non-NULL block
\* whose payload is smaller than n, and placement never writes a header or a
\* footer outside the chosen free block.
C20_NoWrapAround ==
    [][(IsCall /\ hist'[Len(hist')].op = "malloc" /\ hist'[Len(hist')].n # 0)
          => /\ NotBelow(AdjSize(hist'[Len(hist')].n), hist'[Len(hist')].n)
             /\ hist'[Len(hist')].ret # NULL
                   => ULe(hist'[Len(hist')].n,
                          GET_SIZE(Cur', HEAD(hist'[Len(hist')].ret)) - DWORD)
             /\ (hist'[Len(hist')].ret # NULL /\ hist'[Len(hist')].log = <<>>)
                   => OutsideKept(Cur, Cur', hist'[Len(hist')].ret,
                                  GET_SIZE(Cur, HEAD(hist'[Len(hist')].ret)))]_vars

\* allocate has returned a block of 8 bytes for a request of 2^32 - 1 bytes
C20_ShortBlock ==
    /\ hist # <<>> /\ Last.op = "malloc" /\ Last.n = -1 /\ Last.ret # NULL
    /\ GET_SIZE(Cur, HEAD(Last.ret)) = 8

\* allocate has returned a block for a request of 2^32 - 9 bytes and has
\* written on the footer of the block before it
C20_WroteOutside ==
    /\ hist # <<>> /\ Last.op = "malloc" /\ Last.n = -9 /\ Last.ret # NULL
    /\ READ(Cur, HEAD(Last.ret) - HFSIZE) = 1
    /\ IsFree(Cur, Last.ret)

\* allocate has refused a request of 2^32 - 16 bytes, whose adjusted size
\* does not wrap
C20_HugeRefused ==
    /\ hist # <<>> /\ Last.op = "malloc" /\ Last.n = -16 /\ Last.ret = NULL
    /\ Initialized(Cur) /\ Last.log # <<>>

====
